---- MODULE Spec2Model ----
(***************************************************************************)
(* Model of the casino bot of src/main.py: the in-memory account mapping   *)
(* `users`, its persisted copy users.json, the clock, and one operator per *)
(* command handler.  A handler is cut at its `await` points: the code      *)
(* between two awaits runs without interruption on the asyncio event loop. *)
(*                                                                         *)
(* Time is counted in whole hours since an epoch (day = hour \div 24).     *)
(* One uninterrupted handler segment is taken to read one clock value.     *)
(***************************************************************************)
EXTENDS Integers, Sequences, FiniteSets, TLC

VARIABLES
  users,   \* the module-level dict `users`
  disk,    \* the content of users.json
  now,     \* datetime.utcnow(), in hours
  slot,    \* the handlers suspended in an await
  pre,     \* history: `users` when the last command was invoked
  last,    \* history: the last command, its arguments, draws and outcome
  prev,    \* history: the command before the last one
  cmds     \* history: the number of commands invoked

vars == <<users, disk, now, slot, pre, last, prev, cmds>>

----------------------------------------------------------------------------
(* Bounds of the exploration *)

\* commands issued in one run of the sequential specification
MaxCmds == 1
\* clock ticks (one hour each) in one run
MaxTicks == 1
\* commands issued in one run of the daily / shop / steal specification
MaxSeqCmds == 2
\* cards in a hand given to get_hand_value on its own
MaxHandLen == 3
\* commands issued in one run of the concurrent specification
MaxConcCmds == 2

----------------------------------------------------------------------------
(* Program constants *)

StartBalance == 500
DailyBase == 100
DailyHours == 24
BoostHours == 1
HoursPerDay == 24
StealQuota == 3
StealQuotaExtra == 4
StealMinVictim == 50
StealMinGain == 20
StealMaxGain == 100
BlackjackLimit == 21
DealerStand == 17
MaxCard == 11

\* discord members: two human accounts and one bot account
Authors == {"u1", "u2"}
Members == Authors \cup {"bot"}
IsBot(m) == m = "bot"
\* commands.is_owner(): the single designated owner identity
IsOwner(a) == a = "u1"

\* shop_items: name -> prix
ShopPrix ==
  [role_vip |-> 1000, ticket_loterie |-> 250, boost_x2 |-> 1200,
   emoji_special |-> 300, badge |-> 500, boost_x3 |-> 2000,
   skin_slot |-> 900, extra_steal |-> 1500]
ShopItems == DOMAIN ShopPrix
IsBoostNameX2Only(objet) == objet = "boost_x2"

\* `"boost" in objet` for the names of the catalog
IsBoostName(objet) == objet \in {"boost_x2", "boost_x3"}

----------------------------------------------------------------------------
(* Strings and timestamps *)

\* "" and None (both falsy in the code's tests)
Empty == << >>
\* datetime.isoformat(): a string that fromisoformat() reads back
IsoFormat(t) == <<"iso", t>>
\* a string fromisoformat() rejects with ValueError
Garbage == <<"garbage">>
ParsesAsIso(s) == Len(s) = 2 /\ s[1] = "iso"
FromIsoFormat(s) == s[2]
\* str(datetime.utcnow().date())
DateStr(t) == t \div HoursPerDay

\* x in list
In(x, seq) == \E i \in 1..Len(seq) : seq[i] = x

\* objet.lower().replace(" ", "_") on the tokens a caller types
NormalizeObjet(s) ==
  CASE s = "Boost X2" -> "boost_x2"
    [] s = "BADGE" -> "badge"
    [] OTHER -> s
\* couleur.lower()
LowerCouleur(s) ==
  CASE s = "Rouge" -> "rouge"
    [] s = "Noir" -> "noir"
    [] s = "VERT" -> "vert"
    [] OTHER -> s

----------------------------------------------------------------------------
(* Accounts *)

DefaultAccount ==
  [balance |-> StartBalance, last_daily |-> Empty, steals |-> << >>,
   items |-> << >>, boost_end |-> Empty, games_played |-> 0,
   total_winnings |-> 0, total_losses |-> 0]

\* get_user_data: the mapping after the lookup (the record is us[id])
GetUserData(us, id) ==
  IF id \in DOMAIN us THEN us ELSE (id :> DefaultAccount) @@ us

HasBoostInclusive(user, t) ==
  IF user.boost_end # Empty
  THEN IF ParsesAsIso(user.boost_end)
       THEN t <= FromIsoFormat(user.boost_end)
       ELSE FALSE
  ELSE FALSE

HasBoost(user, t) ==
  IF user.boost_end # Empty
  THEN IF ParsesAsIso(user.boost_end)
       THEN t < FromIsoFormat(user.boost_end)
       ELSE FALSE
  ELSE FALSE

GetBoostMultiplier(user, t) ==
  IF ~HasBoost(user, t) THEN 1
  ELSE IF In("boost_x3", user.items) THEN 3
  ELSE IF In("boost_x2", user.items) THEN 2
  ELSE 1

ApplyBoost(montant, user, t) == montant * GetBoostMultiplier(user, t)

ResetStealsIfNeeded(user, t) ==
  [user EXCEPT !.steals = SelectSeq(@, LAMBDA s : s = DateStr(t))]

ValidateBetOffByOne(user, mise) ==
  IF mise <= 0 THEN "NotPositive"
  ELSE IF mise >= user.balance THEN "Insufficient"
  ELSE "ok"

\* validate_bet: "ok" or the reason of the refusal
ValidateBet(user, mise) ==
  IF mise <= 0 THEN "NotPositive"
  ELSE IF mise > user.balance THEN "Insufficient"
  ELSE "ok"

RecordGameResultGross(user, mise, gain) ==
  IF gain > mise
  THEN [user EXCEPT !.games_played = @ + 1,
                    !.total_winnings = @ + gain]
  ELSE [user EXCEPT !.games_played = @ + 1,
                    !.total_losses = @ + mise]

RecordGameResult(user, mise, gain) ==
  IF gain > mise
  THEN [user EXCEPT !.games_played = @ + 1,
                    !.total_winnings = @ + (gain - mise)]
  ELSE [user EXCEPT !.games_played = @ + 1,
                    !.total_losses = @ + mise]

SaveUsersKeepsFile(us, d, io) == d

\* save_users: the content of users.json afterwards.  io = "ok": the dump is
\* written; "open_fails": open() raises, the file is untouched; "dump_fails":
\* open(.., "w") has truncated the file and the write raises.
Truncated == [corrupt |-> TRUE]
SaveUsers(us, d, io) ==
  CASE io = "ok" -> us
    [] io = "open_fails" -> d
    [] OTHER -> Truncated

----------------------------------------------------------------------------
(* What one uninterrupted handler segment returns:                         *)
(*   users  the mapping afterwards                                         *)
(*   out    the outcome shown to the caller                                *)
(*   save   whether save_users() was called                                *)
(*   mid    the caller's balance right after the stake was deducted        *)
(*          (games only, -1 elsewhere)                                     *)
(*   gain   the amount credited (0 when nothing is)                        *)

Res(us, out, save, mid, gain) ==
  [users |-> us, out |-> out, save |-> save, mid |-> mid, gain |-> gain]

Rejected(us, why) == Res(us, why, FALSE, -1, 0)

DailyStampsFirst(us, a, t) ==
  LET us1 == GetUserData(us, a)
      user == us1[a]
      last_daily_str == user.last_daily
      tooSoon == /\ last_daily_str # Empty
                 /\ ParsesAsIso(last_daily_str)
                 /\ t - FromIsoFormat(last_daily_str) < DailyHours
      stamped == [us1 EXCEPT ![a].last_daily = IsoFormat(t)]
  IN IF tooSoon THEN Rejected(stamped, "TooSoon")
     ELSE LET gain == ApplyBoost(DailyBase, user, t)
              u2 == [user EXCEPT !.balance = @ + gain,
                                 !.last_daily = IsoFormat(t)]
          IN Res([us1 EXCEPT ![a] = u2], "granted", TRUE, -1, gain)

DailyOffByOne(us, a, t) ==
  LET us1 == GetUserData(us, a)
      user == us1[a]
      last_daily_str == user.last_daily
      tooSoon == /\ last_daily_str # Empty
                 /\ ParsesAsIso(last_daily_str)
                 /\ t - FromIsoFormat(last_daily_str) <= DailyHours
  IN IF tooSoon THEN Rejected(us1, "TooSoon")
     ELSE LET gain == ApplyBoost(DailyBase, user, t)
              u2 == [user EXCEPT !.balance = @ + gain,
                                 !.last_daily = IsoFormat(t)]
          IN Res([us1 EXCEPT ![a] = u2], "granted", TRUE, -1, gain)

Daily(us, a, t) ==
  LET us1 == GetUserData(us, a)
      user == us1[a]
      last_daily_str == user.last_daily
      tooSoon == /\ last_daily_str # Empty
                 /\ ParsesAsIso(last_daily_str)
                 /\ t - FromIsoFormat(last_daily_str) < DailyHours
  IN IF tooSoon THEN Rejected(us1, "TooSoon")
     ELSE LET gain == ApplyBoost(DailyBase, user, t)
              u2 == [user EXCEPT !.balance = @ + gain,
                                 !.last_daily = IsoFormat(t)]
          IN Res([us1 EXCEPT ![a] = u2], "granted", TRUE, -1, gain)

SettleBoostsRefund(us1, a, mise, kind, base, t) ==
  LET user == us1[a]
      deducted == [user EXCEPT !.balance = @ - mise]
      gain == IF kind = "lose" THEN 0 ELSE ApplyBoost(base, deducted, t)
      paid == [deducted EXCEPT !.balance = @ + gain]
      done == RecordGameResult(paid, mise, gain)
  IN Res([us1 EXCEPT ![a] = done], kind, TRUE, deducted.balance, gain)

\* The common frame of the five games: validate, deduct, resolve, record.
\* base: the payout before boost; kind: "win", "push" or "lose".
Settle(us1, a, mise, kind, base, t) ==
  LET user == us1[a]
      deducted == [user EXCEPT !.balance = @ - mise]
      gain == IF kind = "win" THEN ApplyBoost(base, deducted, t)
              ELSE IF kind = "push" THEN mise ELSE 0
      paid == [deducted EXCEPT !.balance = @ + gain]
      done == RecordGameResult(paid, mise, gain)
  IN Res([us1 EXCEPT ![a] = done], kind, TRUE, deducted.balance, gain)

CoinflipDeductsOnly(us, a, mise, player_choice, bot_choice, t) ==
  LET us1 == GetUserData(us, a)
      v == ValidateBet(us1[a], mise)
  IN IF v # "ok" THEN Rejected(us1, v)
     ELSE Res([us1 EXCEPT ![a].balance = @ - mise],
              IF player_choice = bot_choice THEN "win" ELSE "lose",
              FALSE, us1[a].balance - mise, 0)

Coinflip(us, a, mise, player_choice, bot_choice, t) ==
  LET us1 == GetUserData(us, a)
      v == ValidateBet(us1[a], mise)
  IN IF v # "ok" THEN Rejected(us1, v)
     ELSE IF player_choice = bot_choice
          THEN Settle(us1, a, mise, "win", mise * 2, t)
          ELSE Settle(us1, a, mise, "lose", 0, t)

\* int(mise * 1.8) for a positive mise
DiceBase(mise) == (mise * 18) \div 10

Dice(us, a, mise, player_roll, bot_roll, t) ==
  LET us1 == GetUserData(us, a)
      v == ValidateBet(us1[a], mise)
  IN IF v # "ok" THEN Rejected(us1, v)
     ELSE IF player_roll > bot_roll
          THEN Settle(us1, a, mise, "win", DiceBase(mise), t)
          ELSE IF player_roll = bot_roll
               THEN Settle(us1, a, mise, "push", mise, t)
               ELSE Settle(us1, a, mise, "lose", 0, t)

RouletteBase(couleur, mise) ==
  IF couleur = "vert" THEN mise * 35 ELSE mise * 2

Roulette(us, a, mise, couleur0, resultat, t) ==
  LET couleur == LowerCouleur(couleur0)
  IN IF couleur \notin {"rouge", "noir", "vert"}
     THEN Rejected(us, "InvalidColor")
     ELSE LET us1 == GetUserData(us, a)
              v == ValidateBet(us1[a], mise)
          IN IF v # "ok" THEN Rejected(us1, v)
             ELSE IF couleur = resultat
                  THEN Settle(us1, a, mise, "win", RouletteBase(couleur, mise), t)
                  ELSE Settle(us1, a, mise, "lose", 0, t)

----------------------------------------------------------------------------
(* Blackjack.  get_hand_value reads only the sum of a hand and its number   *)
(* of 11s, so the house's draw loop is followed on the pair <<sum, elevens>>. *)

Cards == 1..MaxCard

RECURSIVE SumCards(_)
SumCards(cards) ==
  IF cards = << >> THEN 0 ELSE Head(cards) + SumCards(Tail(cards))

CountElevens(cards) == Cardinality({i \in 1..Len(cards) : cards[i] = 11})

ReduceAcesAll(total, aces) == total - 10 * aces

\* the while loop of get_hand_value
RECURSIVE ReduceAces(_, _)
ReduceAces(total, aces) ==
  IF total > BlackjackLimit /\ aces > 0
  THEN ReduceAces(total - 10, aces - 1)
  ELSE total

GetHandValuePlain(cards) == SumCards(cards)

GetHandValue(cards) == ReduceAces(SumCards(cards), CountElevens(cards))

HandOf(cards) == <<SumCards(cards), CountElevens(cards)>>
HandTotal(h) == ReduceAces(h[1], h[2])
HitForgetsAce(h, c) == <<h[1] + c, h[2]>>

Hit(h, c) == <<h[1] + c, h[2] + (IF c = 11 THEN 1 ELSE 0)>>
InitialHands == {HandOf(<<c, d>>) : c \in Cards, d \in Cards}

\* while dealer_total < 17: dealer_cards.append(get_card_value())
RECURSIVE DealerPlay(_)
DealerPlay(S) ==
  LET standing == {h \in S : HandTotal(h) >= DealerStand}
      drawing == S \ standing
  IN IF drawing = {} THEN S
     ELSE DealerPlay(standing \cup {Hit(h, c) : h \in drawing, c \in Cards})

PlayerTotals == {HandTotal(h) : h \in InitialHands}
DealerTotals == {HandTotal(h) : h \in DealerPlay(InitialHands)}

Blackjack(us, a, mise, player_total, dealer_total, t) ==
  LET us1 == GetUserData(us, a)
      v == ValidateBet(us1[a], mise)
  IN IF v # "ok" THEN Rejected(us1, v)
     ELSE IF player_total > BlackjackLimit
          THEN Settle(us1, a, mise, "lose", 0, t)
          ELSE IF dealer_total > BlackjackLimit
               THEN Settle(us1, a, mise, "win", mise * 2, t)
               ELSE IF player_total > dealer_total
                    THEN Settle(us1, a, mise, "win", mise * 2, t)
                    ELSE IF player_total = dealer_total
                         THEN Settle(us1, a, mise, "push", mise, t)
                         ELSE Settle(us1, a, mise, "lose", 0, t)

----------------------------------------------------------------------------
(* Slot machine *)

Symbols == {"apple", "orange", "lemon", "grape", "cherry", "gem", "star", "seven"}

SlotMultiplierNoCherry(reel1, reel2, reel3) ==
  IF reel1 = reel2 /\ reel2 = reel3
  THEN IF reel1 = "seven" THEN 50
       ELSE IF reel1 = "star" THEN 25
       ELSE IF reel1 = "gem" THEN 15
       ELSE 5
  ELSE IF reel1 = reel2 \/ reel2 = reel3 \/ reel1 = reel3 THEN 2
  ELSE 0

SlotMultiplier(reel1, reel2, reel3) ==
  IF reel1 = reel2 /\ reel2 = reel3
  THEN IF reel1 = "seven" THEN 50
       ELSE IF reel1 = "star" THEN 25
       ELSE IF reel1 = "gem" THEN 15
       ELSE IF reel1 = "cherry" THEN 10
       ELSE 5
  ELSE IF reel1 = reel2 \/ reel2 = reel3 \/ reel1 = reel3 THEN 2
  ELSE 0

Slot(us, a, mise, reel1, reel2, reel3, t) ==
  LET us1 == GetUserData(us, a)
      v == ValidateBet(us1[a], mise)
      multiplier == SlotMultiplier(reel1, reel2, reel3)
  IN IF v # "ok" THEN Rejected(us1, v)
     ELSE IF multiplier > 0
          THEN Settle(us1, a, mise, "win", mise * multiplier, t)
          ELSE Settle(us1, a, mise, "lose", 0, t)

----------------------------------------------------------------------------
(* Shop, steal, gift, administration, balance *)

AcheterOnCredit(us, a, objet0, t) ==
  LET us1 == GetUserData(us, a)
      user == us1[a]
      objet == NormalizeObjet(objet0)
  IN IF objet \notin ShopItems THEN Rejected(us1, "UnknownItem")
     ELSE IF In(objet, user.items) THEN Rejected(us1, "AlreadyOwned")
          ELSE Res([us1 EXCEPT ![a].balance = @ - ShopPrix[objet],
                               ![a].items = Append(@, objet)],
                   "bought", TRUE, -1, 0)

Acheter(us, a, objet0, t) ==
  LET us1 == GetUserData(us, a)
      user == us1[a]
      objet == NormalizeObjet(objet0)
  IN IF objet \notin ShopItems THEN Rejected(us1, "UnknownItem")
     ELSE IF user.balance < ShopPrix[objet]
          THEN Rejected(us1, "InsufficientFunds")
          ELSE IF In(objet, user.items) THEN Rejected(us1, "AlreadyOwned")
               ELSE LET bought == [user EXCEPT
                                     !.balance = @ - ShopPrix[objet],
                                     !.items = Append(@, objet)]
                        boosted == IF IsBoostName(objet)
                                   THEN [bought EXCEPT
                                           !.boost_end = IsoFormat(t + BoostHours)]
                                   ELSE bought
                    IN Res([us1 EXCEPT ![a] = boosted], "bought", TRUE, -1, 0)

Min(x, y) == IF x <= y THEN x ELSE y
Max(x, y) == IF x >= y THEN x ELSE y

MaxSteals(user) == IF In("extra_steal", user.items) THEN StealQuotaExtra ELSE StealQuota

StealRangeWhole(victimBalance) ==
  StealMinGain .. Min(StealMaxGain, victimBalance)

\* random.randint(20, min(100, cible_user["balance"] // 2)): the values it can return
StealRange(victimBalance) ==
  StealMinGain .. Min(StealMaxGain, victimBalance \div 2)

StealBeginVictimFirst(us, a, cible, caught, gain, t) ==
  IF IsBot(cible) \/ cible = a THEN Rejected(us, "InvalidTarget")
  ELSE LET us1 == GetUserData(GetUserData(us, a), cible)
           us2 == [us1 EXCEPT ![a] = ResetStealsIfNeeded(@, t)]
           steals_today == us2[a].steals
       IN IF us2[cible].balance < StealMinVictim
          THEN Rejected(us2, "VictimTooPoor")
          ELSE IF Len(steals_today) >= MaxSteals(us2[a])
               THEN Rejected(us2, "QuotaExceeded")
               ELSE IF caught THEN Res(us2, "caught", FALSE, -1, 0)
                    ELSE Res([us2 EXCEPT
                                ![cible].balance = @ - gain,
                                ![a].balance = @ + gain,
                                ![a].steals = Append(steals_today, DateStr(t))],
                             "stolen", TRUE, -1, gain)

\* steal up to its first suspension.  caught: random.random() > 0.7;
\* gain: the value randint returned.  On the caught path the handler
\* suspends in ctx.send before it records the attempt: out = "caught" and
\* the mapping holds only the lookups and the pruning.
StealBegin(us, a, cible, caught, gain, t) ==
  IF IsBot(cible) \/ cible = a THEN Rejected(us, "InvalidTarget")
  ELSE LET us1 == GetUserData(GetUserData(us, a), cible)
           us2 == [us1 EXCEPT ![a] = ResetStealsIfNeeded(@, t)]
           steals_today == us2[a].steals
       IN IF Len(steals_today) >= MaxSteals(us2[a])
          THEN Rejected(us2, "QuotaExceeded")
          ELSE IF us2[cible].balance < StealMinVictim
               THEN Rejected(us2, "VictimTooPoor")
               ELSE IF caught THEN Res(us2, "caught", FALSE, -1, 0)
                    ELSE Res([us2 EXCEPT
                                ![cible].balance = @ - gain,
                                ![a].balance = @ + gain,
                                ![a].steals = Append(steals_today, DateStr(t))],
                             "stolen", TRUE, -1, gain)

StealCaughtForgets(us, a, steals_today, today_str) ==
  [us EXCEPT ![a].steals = steals_today]

\* the caught path after ctx.send returns: steals_today and today_str are the
\* handler's locals from before the suspension
StealCaughtResume(us, a, steals_today, today_str) ==
  [us EXCEPT ![a].steals = Append(steals_today, today_str)]

\* steal run without another handler in between
Steal(us, a, cible, caught, gain, t) ==
  LET r == StealBegin(us, a, cible, caught, gain, t)
  IN IF r.out = "caught"
     THEN Res(StealCaughtResume(r.users, a, r.users[a].steals, DateStr(t)),
              "caught", TRUE, -1, 0)
     ELSE r

DonUnchecked(us, a, membre, montant) ==
  LET us1 == GetUserData(GetUserData(us, a), membre)
  IN IF IsBot(membre) THEN Rejected(us1, "InvalidReceiver")
     ELSE IF membre = a THEN Rejected(us1, "SelfTransfer")
     ELSE IF montant <= 0 THEN Rejected(us1, "NotPositive")
     ELSE Res([us1 EXCEPT ![a].balance = @ - montant,
                          ![membre].balance = @ + montant],
              "given", TRUE, -1, montant)

DonDebitsOnly(us, a, membre, montant) ==
  LET us1 == GetUserData(GetUserData(us, a), membre)
  IN IF IsBot(membre) THEN Rejected(us1, "InvalidReceiver")
     ELSE IF membre = a THEN Rejected(us1, "SelfTransfer")
     ELSE IF montant <= 0 THEN Rejected(us1, "NotPositive")
     ELSE IF us1[a].balance < montant THEN Rejected(us1, "InsufficientFunds")
     ELSE Res([us1 EXCEPT ![a].balance = @ - montant],
              "given", TRUE, -1, montant)

Don(us, a, membre, montant) ==
  LET us1 == GetUserData(GetUserData(us, a), membre)
  IN IF IsBot(membre) THEN Rejected(us1, "InvalidReceiver")
     ELSE IF membre = a THEN Rejected(us1, "SelfTransfer")
     ELSE IF montant <= 0 THEN Rejected(us1, "NotPositive")
     ELSE IF us1[a].balance < montant THEN Rejected(us1, "InsufficientFunds")
     ELSE Res([us1 EXCEPT ![a].balance = @ - montant,
                          ![membre].balance = @ + montant],
              "given", TRUE, -1, montant)

Give(us, a, member, amount) ==
  IF ~IsOwner(a) THEN Rejected(us, "NotOwner")
  ELSE LET us1 == GetUserData(us, member)
       IN Res([us1 EXCEPT ![member].balance = @ + amount],
              "credited", TRUE, -1, amount)

Remove(us, a, member, amount) ==
  IF ~IsOwner(a) THEN Rejected(us, "NotOwner")
  ELSE LET us1 == GetUserData(us, member)
       IN Res([us1 EXCEPT ![member].balance = Max(@ - amount, 0)],
              "debited", TRUE, -1, 0)

\* balance: a lookup (which may create the account) and a display
Balance(us, a) == Res(GetUserData(us, a), "shown", FALSE, -1, 0)

----------------------------------------------------------------------------
(* The store the process starts from: users.json as earlier runs left it   *)

StartHour == 2 * HoursPerDay - 1
Today == DateStr(StartHour)

AcctRich ==
  [balance |-> 2500, last_daily |-> IsoFormat(StartHour - DailyHours),
   steals |-> <<Today - 1>>, items |-> << >>, boost_end |-> Empty,
   games_played |-> 0, total_winnings |-> 0, total_losses |-> 0]

AcctBoosted ==
  [balance |-> 1300, last_daily |-> IsoFormat(StartHour - DailyHours + 1),
   steals |-> <<Today, Today>>, items |-> <<"boost_x2">>,
   boost_end |-> IsoFormat(StartHour + BoostHours),
   games_played |-> 1, total_winnings |-> 0, total_losses |-> 100]

AcctTriple ==
  [balance |-> 40, last_daily |-> Empty,
   steals |-> <<Today, Today, Today>>,
   items |-> <<"boost_x2", "extra_steal", "boost_x3">>,
   boost_end |-> IsoFormat(StartHour + BoostHours + 1),
   games_played |-> 2, total_winnings |-> 900, total_losses |-> 60]

NoUsers == << >>

InitStores ==
  { NoUsers,
    ("u1" :> AcctRich) @@ ("u2" :> AcctBoosted),
    ("u1" :> AcctTriple) @@ ("u2" :> AcctRich),
    ("u1" :> AcctBoosted) @@ ("u2" :> AcctTriple) }

NoCmd ==
  [cmd |-> "none", who |-> "", whom |-> "", n |-> 0, s |-> "", draw |-> << >>,
   out |-> "", saved |-> FALSE, mid |-> -1, gain |-> 0, t |-> 0]

Idle == [pc |-> "idle"]
Slots == {1, 2}

Init ==
  /\ users \in InitStores
  /\ disk = users
  /\ now = StartHour
  /\ slot = [h \in Slots |-> Idle]
  /\ pre = users
  /\ last = NoCmd
  /\ prev = NoCmd
  /\ cmds = 0

----------------------------------------------------------------------------
(* Inputs *)

BalanceOf(us, id) == GetUserData(us, id)[id].balance

Stakes(bal) == {0, 1, bal, bal + 1}
Faces == {"pile", "face"}
\* random.randint(1, 6): the lowest and the highest value
Rolls == {1, 6}
Couleurs == {"rouge", "Noir", "vert", "bleu"}
Wheel == {"rouge", "noir", "vert"}
Objets == ShopItems \cup {"Boost X2", "yacht"}
Montants(bal) == {0, 1, bal, bal + 1}
AdminAmounts == {-600, 700}
\* the extreme values randint can return
Extremes(S) == {x \in S : (\A y \in S : x <= y) \/ (\A y \in S : x >= y)}
StealDraws(us, cible) ==
  LET r == StealRange(BalanceOf(us, cible))
  IN IF r = {} THEN {0} ELSE Extremes(r)

\* the reels drawn: every triple, two of a kind in each position, no match
SlotDraws ==
  {<<x, x, x>> : x \in Symbols}
    \cup {<<"apple", "apple", "seven">>, <<"seven", "cherry", "seven">>,
          <<"gem", "star", "star">>, <<"apple", "orange", "lemon">>}
\* the totals drawn: the extremes and the house's threshold
PlayerDraws == {x \in PlayerTotals : x \in {2, 17, 21}}
DealerDraws == {x \in DealerTotals : x \in {17, 26}}

\* the outcomes of a game whose stake was accepted
Resolved == {"win", "push", "lose"}
Games == {"coinflip", "dice", "roulette", "blackjack", "slot"}

----------------------------------------------------------------------------
(* The sequential specification: every command runs to its end before the  *)
(* next one is invoked.                                                    *)

Run(r, cmd, a, whom, n, s, draw) ==
  /\ pre' = users
  /\ users' = r.users
  /\ disk' = IF r.save THEN SaveUsers(r.users, disk, "ok") ELSE disk
  /\ last' = [cmd |-> cmd, who |-> a, whom |-> whom, n |-> n, s |-> s,
              draw |-> IF r.out \in Resolved THEN draw ELSE << >>,
              out |-> r.out, saved |-> r.save,
              mid |-> r.mid, gain |-> r.gain, t |-> now]
  /\ prev' = last
  /\ cmds' = cmds + 1
  /\ UNCHANGED <<now, slot>>

DoDaily == \E a \in Authors : Run(Daily(users, a, now), "daily", a, "", 0, "", << >>)

DoBalance == \E a \in Authors : Run(Balance(users, a), "balance", a, "", 0, "", << >>)

DoCoinflip ==
  \E a \in Authors : \E mise \in Stakes(BalanceOf(users, a)) :
    \E pc \in Faces, bc \in Faces :
      Run(Coinflip(users, a, mise, pc, bc, now), "coinflip", a, "", mise, "", <<pc, bc>>)

DoDice ==
  \E a \in Authors : \E mise \in Stakes(BalanceOf(users, a)) :
    \E pr \in Rolls, br \in Rolls :
      Run(Dice(users, a, mise, pr, br, now), "dice", a, "", mise, "", <<pr, br>>)

DoRoulette ==
  \E a \in Authors : \E mise \in Stakes(BalanceOf(users, a)) :
    \E couleur \in Couleurs, resultat \in Wheel :
      Run(Roulette(users, a, mise, couleur, resultat, now),
          "roulette", a, "", mise, couleur, <<resultat>>)

DoBlackjack ==
  \E a \in Authors : \E mise \in Stakes(BalanceOf(users, a)) :
    \E pt \in PlayerDraws, dt \in DealerDraws :
      Run(Blackjack(users, a, mise, pt, dt, now), "blackjack", a, "", mise, "", <<pt, dt>>)

DoSlot ==
  \E a \in Authors : \E mise \in Stakes(BalanceOf(users, a)) :
    \E reels \in SlotDraws :
      Run(Slot(users, a, mise, reels[1], reels[2], reels[3], now),
          "slot", a, "", mise, "", reels)

DoAcheter ==
  \E a \in Authors, objet \in Objets :
    Run(Acheter(users, a, objet, now), "acheter", a, "", 0, objet, << >>)

DoSteal ==
  \E a \in Authors, cible \in Members :
    \E caught \in BOOLEAN, gain \in StealDraws(users, cible) :
      Run(Steal(users, a, cible, caught, gain, now), "steal", a, cible, 0, "", << >>)

DoDon ==
  \E a \in Authors, membre \in Members :
    \E montant \in Montants(BalanceOf(users, a)) :
      Run(Don(users, a, membre, montant), "don", a, membre, montant, "", << >>)

DoGive ==
  \E a \in Authors, member \in Members, amount \in AdminAmounts :
    Run(Give(users, a, member, amount), "give", a, member, amount, "", << >>)

DoRemove ==
  \E a \in Authors, member \in Members, amount \in AdminAmounts :
    Run(Remove(users, a, member, amount), "remove", a, member, amount, "", << >>)

Tick ==
  /\ now < StartHour + MaxTicks
  /\ now' = now + 1
  /\ UNCHANGED <<users, disk, slot, pre, last, prev, cmds>>

\* a command is invoked when no handler is in flight
Ready(limit) == cmds < limit /\ \A h \in Slots : slot[h].pc = "idle"

Next ==
  \/ Ready(MaxCmds) /\ DoDaily
  \/ Ready(MaxCmds) /\ DoBalance
  \/ Ready(MaxCmds) /\ DoCoinflip
  \/ Ready(MaxCmds) /\ DoDice
  \/ Ready(MaxCmds) /\ DoRoulette
  \/ Ready(MaxCmds) /\ DoBlackjack
  \/ Ready(MaxCmds) /\ DoSlot
  \/ Ready(MaxCmds) /\ DoAcheter
  \/ Ready(MaxCmds) /\ DoSteal
  \/ Ready(MaxCmds) /\ DoDon
  \/ Ready(MaxCmds) /\ DoGive
  \/ Ready(MaxCmds) /\ DoRemove
  \/ Tick

Spec == Init /\ [][Next]_vars

\* The daily claim, the shop and the steal, two commands deep.
SeqNext ==
  \/ Ready(MaxSeqCmds) /\ DoDaily
  \/ Ready(MaxSeqCmds) /\ DoAcheter
  \/ Ready(MaxSeqCmds) /\ DoSteal
  \/ Tick

SeqSpec == Init /\ [][SeqNext]_vars

----------------------------------------------------------------------------
(* The concurrent specification: the event loop runs each handler from one *)
(* await to the next without interruption, and several handlers may be     *)
(* suspended at once.  A handler is invoked (scheduled, but its body has   *)
(* not run), begins (runs to its first await, the ctx.send of its reply)   *)
(* and resumes when ctx.send returns.                                      *)

\* the invocations whose body has not run yet
Pending == {slot[k].at : k \in {j \in Slots : slot[j].pc = "invoked"}}

FreeSlot(h) ==
  /\ slot[h].pc = "idle"
  /\ \A k \in Slots : k < h => slot[k].pc # "idle"

\* at: the invocation's number; open: the invocations pending when it was
\* made; seen: the caller's balance when it was made; had: the caller's
\* balance when the body began
Dispatch(h, cmd, a, whom, n) ==
  /\ cmds < MaxConcCmds
  /\ FreeSlot(h)
  /\ slot' = [slot EXCEPT ![h] =
                [pc |-> "invoked", cmd |-> cmd, who |-> a, whom |-> whom,
                 n |-> n, at |-> cmds + 1, open |-> Pending,
                 seen |-> BalanceOf(users, a), had |-> -1, out |-> "",
                 steals_today |-> << >>, today_str |-> 0]]
  /\ cmds' = cmds + 1
  /\ UNCHANGED <<users, disk, now, pre, last, prev>>

InvokeDon ==
  \E h \in Slots, a \in Authors, membre \in Members :
    \E montant \in Montants(BalanceOf(users, a)) :
      Dispatch(h, "don", a, membre, montant)

InvokeSteal ==
  \E h \in Slots, a \in Authors, cible \in Members :
    Dispatch(h, "steal", a, cible, 0)

\* don from its first line to the ctx.send of its reply
BeginDon(h) ==
  /\ slot[h].pc = "invoked"
  /\ slot[h].cmd = "don"
  /\ LET c == slot[h]
         r == Don(users, c.who, c.whom, c.n)
     IN /\ users' = r.users
        /\ disk' = IF r.save THEN SaveUsers(r.users, disk, "ok") ELSE disk
        /\ slot' = [slot EXCEPT ![h].pc = "sending",
                                ![h].out = r.out,
                                ![h].had = BalanceOf(users, c.who)]
  /\ UNCHANGED <<now, pre, last, prev, cmds>>

\* steal from its first line to its first ctx.send
BeginSteal(h) ==
  /\ slot[h].pc = "invoked"
  /\ slot[h].cmd = "steal"
  /\ LET c == slot[h]
     IN \E caught \in BOOLEAN, gain \in StealDraws(users, c.whom) :
          LET r == StealBegin(users, c.who, c.whom, caught, gain, now)
          IN /\ users' = r.users
             /\ disk' = IF r.save THEN SaveUsers(r.users, disk, "ok") ELSE disk
             /\ slot' = [slot EXCEPT
                           ![h].pc = "sending",
                           ![h].out = r.out,
                           ![h].had = BalanceOf(users, c.who),
                           ![h].steals_today =
                              IF r.out = "caught" THEN r.users[c.who].steals
                              ELSE << >>,
                           ![h].today_str = DateStr(now)]
  /\ UNCHANGED <<now, pre, last, prev, cmds>>

\* ctx.send returns: the caught steal records its attempt and saves, every
\* other handler returns (a resolved game goes on in wait_and_send)
Resume(h) ==
  /\ slot[h].pc = "sending"
  /\ ~(slot[h].cmd \in Games /\ slot[h].out \in Resolved)
  /\ LET c == slot[h]
     IN IF c.cmd = "steal" /\ c.out = "caught"
        THEN LET us == StealCaughtResume(users, c.who, c.steals_today, c.today_str)
             IN users' = us /\ disk' = SaveUsers(us, disk, "ok")
        ELSE UNCHANGED <<users, disk>>
  /\ slot' = [slot EXCEPT ![h] = Idle]
  /\ UNCHANGED <<now, pre, last, prev, cmds>>

ConcNext ==
  \/ InvokeDon
  \/ InvokeSteal
  \/ \E h \in Slots : BeginDon(h)
  \/ \E h \in Slots : BeginSteal(h)
  \/ \E h \in Slots : Resume(h)

\* the stores the concurrent runs start from: the empty one and one with
\* stamps, items and a balance below the steal minimum
ConcStores == {NoUsers, ("u1" :> AcctBoosted) @@ ("u2" :> AcctTriple)}

ConcInit == Init /\ users \in ConcStores

ConcSpec == ConcInit /\ [][ConcNext]_vars

----------------------------------------------------------------------------
(* Properties of the sequential specification.  They read the history:     *)
(* `pre` is the mapping when the last command was invoked, `last` the      *)
(* command, and `users` the mapping it left.                               *)

\* the account a lookup of `id` finds in `pre`
PreAcct(id) == GetUserData(pre, id)[id]
PreBal(id) == PreAcct(id).balance
\* the boost multiplier in force for the caller of the last command
LastMult == GetBoostMultiplier(PreAcct(last.who), last.t)

Rejections ==
  {"NotPositive", "Insufficient", "InvalidColor", "UnknownItem",
   "InsufficientFunds", "AlreadyOwned", "InvalidTarget", "SelfTransfer",
   "InvalidReceiver", "QuotaExceeded", "VictimTooPoor", "TooSoon", "NotOwner"}

\* the command c invoked again on the mapping us (a rejection is decided
\* before anything is drawn, so the draws are arbitrary)
Invoke(us, c) ==
  CASE c.cmd = "daily" -> Daily(us, c.who, c.t)
    [] c.cmd = "coinflip" -> Coinflip(us, c.who, c.n, "pile", "face", c.t)
    [] c.cmd = "dice" -> Dice(us, c.who, c.n, 1, 6, c.t)
    [] c.cmd = "roulette" -> Roulette(us, c.who, c.n, c.s, "rouge", c.t)
    [] c.cmd = "blackjack" -> Blackjack(us, c.who, c.n, 2, 17, c.t)
    [] c.cmd = "slot" -> Slot(us, c.who, c.n, "apple", "orange", "lemon", c.t)
    [] c.cmd = "acheter" -> Acheter(us, c.who, c.s, c.t)
    [] c.cmd = "steal" -> Steal(us, c.who, c.whom, TRUE, 0, c.t)
    [] c.cmd = "don" -> Don(us, c.who, c.whom, c.n)
    [] c.cmd = "give" -> Give(us, c.who, c.whom, c.n)
    [] c.cmd = "remove" -> Remove(us, c.who, c.whom, c.n)
    [] OTHER -> Balance(us, c.who)

\* C1: after any sequence of commands, the admin operations included, every
\* balance in the persisted store is >= 0.
C1_PersistedBalancesNonNegative ==
  \A id \in DOMAIN disk : disk[id].balance >= 0

\* C3 as stated: a command that ends in a rejection leaves the in-memory
\* mapping exactly as it was before the invocation.
C3_RejectionLeavesMappingUntouched ==
  last.out \in Rejections => users = pre

\* C3 as amended: a rejection saves nothing, removes no account and changes
\* no existing account except that a steal refused for quota or for a poor
\* victim has pruned the attacker's stamps of earlier days; it may create
\* default accounts for the caller and the target; and the same command
\* invoked again at the same time is rejected again and changes nothing.
C3_RejectionKeepsAccounts ==
  last.out \in Rejections =>
    /\ ~last.saved
    /\ DOMAIN pre \subseteq DOMAIN users
    /\ (DOMAIN users \ DOMAIN pre) \subseteq {last.who, last.whom}
    /\ \A id \in DOMAIN users \ DOMAIN pre : users[id] = DefaultAccount
    /\ \A id \in DOMAIN pre :
         \/ users[id] = pre[id]
         \/ /\ last.out \in {"QuotaExceeded", "VictimTooPoor"}
            /\ id = last.who
            /\ users[id] =
                 [pre[id] EXCEPT
                    !.steals = SelectSeq(@, LAMBDA d : d = DateStr(last.t))]
    /\ Invoke(users, last).users = users
    /\ Invoke(users, last).out = last.out

\* a rejected command has created the caller's account
C3_Witness ==
  /\ last.out \in Rejections
  /\ last.who \in DOMAIN users \ DOMAIN pre

\* the roulette token is one of the three colours (always so for the other games)
ValidCouleur ==
  last.cmd = "roulette" => LowerCouleur(last.s) \in {"rouge", "noir", "vert"}

\* C4: in each game a stake s is accepted iff 0 < s <= the caller's balance;
\* for an accepted stake the balance right after the deduction is the
\* balance before minus s, and the final balance is that plus the payout.
C4_StakeDeducted ==
  (last.cmd \in Games /\ ValidCouleur) =>
    /\ (last.out \in Resolved) <=> (0 < last.n /\ last.n <= PreBal(last.who))
    /\ last.out \in Resolved =>
         /\ last.mid = PreBal(last.who) - last.n
         /\ users[last.who].balance = PreBal(last.who) - last.n + last.gain

\* the whole balance was staked and lost
C4_Witness ==
  /\ last.cmd = "blackjack"
  /\ last.out = "lose"
  /\ last.n = PreBal(last.who)
  /\ users[last.who].balance = 0

\* the slot factor of the claim's table
ClaimedSlotFactor(d) ==
  IF d[1] = d[2] /\ d[2] = d[3]
  THEN CASE d[1] = "seven" -> 50
         [] d[1] = "star" -> 25
         [] d[1] = "gem" -> 15
         [] d[1] = "cherry" -> 10
         [] OTHER -> 5
  ELSE IF Cardinality({d[1], d[2], d[3]}) = 2 THEN 2 ELSE 0

\* C9: a win credits boostMultiplier * base: base = 2*stake (coinflip,
\* blackjack, red/black), 35*stake (green), floor(1.8*stake) (dice),
\* stake*m (slots, m from the table); a loss credits nothing.
C9_Payouts ==
  (last.cmd \in Games /\ last.out \in Resolved) =>
    LET n == last.n
        m == LastMult
        d == last.draw
    IN /\ m \in {1, 2, 3}
       /\ last.cmd = "coinflip" =>
            last.gain = IF d[1] = d[2] THEN m * 2 * n ELSE 0
       /\ last.cmd = "dice" =>
            /\ d[1] > d[2] =>
                 \E k \in 0..(2 * n) :
                   /\ 10 * k <= 18 * n /\ 18 * n < 10 * (k + 1)
                   /\ last.gain = m * k
            /\ d[1] < d[2] => last.gain = 0
       /\ last.cmd = "roulette" =>
            last.gain = IF LowerCouleur(last.s) # d[1] THEN 0
                        ELSE IF d[1] = "vert" THEN m * 35 * n
                        ELSE m * 2 * n
       /\ last.cmd = "blackjack" =>
            /\ (d[1] <= 21 /\ (d[2] > 21 \/ d[1] > d[2])) => last.gain = m * 2 * n
            /\ (d[1] > 21 \/ (d[2] <= 21 /\ d[1] < d[2])) => last.gain = 0
       /\ last.cmd = "slot" =>
            last.gain = m * n * ClaimedSlotFactor(d)

\* three cherries paid ten times the stake, tripled by an active boost
C9_Witness ==
  /\ last.cmd = "slot"
  /\ last.draw = <<"cherry", "cherry", "cherry">>
  /\ LastMult = 3
  /\ last.gain = 30 * last.n

\* C10: a tie in the dice duel or in blackjack restores the caller's
\* balance to its value before the bet, whatever the boost.
C10_TieRefunds ==
  (last.cmd \in {"dice", "blackjack"} /\ last.out \in Resolved
     /\ last.draw[1] = last.draw[2]) =>
    /\ last.out = "push"
    /\ users[last.who].balance = PreBal(last.who)

\* a tie under an active boost
C10_Witness ==
  /\ last.cmd \in {"dice", "blackjack"}
  /\ last.out = "push"
  /\ LastMult > 1
  /\ users[last.who].balance = PreBal(last.who)

\* the attacker's stamps of the day of the last command, before it ran
KeptSteals == SelectSeq(PreAcct(last.who).steals, LAMBDA d : d = DateStr(last.t))
ClaimedQuota == IF In("extra_steal", PreAcct(last.who).items) THEN 4 ELSE 3
BalancesUnchanged == \A id \in DOMAIN users : users[id].balance = PreBal(id)

\* C5: steals of one attacker run one after another (against another
\* member who is not a bot): a caught or successful attempt leaves the
\* stamps of the current day plus exactly one new stamp of today, stamps of
\* earlier days are gone before the quota is evaluated, and with 3 stamps of
\* today (4 with extra_steal) the steal is refused as QuotaExceeded and no
\* balance changes.
C5_StealQuota ==
  (last.cmd = "steal" /\ last.whom # last.who /\ ~IsBot(last.whom)) =>
    /\ last.out \in {"caught", "stolen", "QuotaExceeded", "VictimTooPoor"}
    /\ last.out \in {"caught", "stolen"} =>
         /\ Len(KeptSteals) < ClaimedQuota
         /\ users[last.who].steals = Append(KeptSteals, DateStr(last.t))
    /\ last.out \in {"QuotaExceeded", "VictimTooPoor"} =>
         users[last.who].steals = KeptSteals
    /\ Len(KeptSteals) >= ClaimedQuota =>
         (last.out = "QuotaExceeded" /\ BalancesUnchanged)
    /\ last.out = "QuotaExceeded" => Len(KeptSteals) >= ClaimedQuota
    /\ last.out = "caught" => BalancesUnchanged

\* an attempt was resolved and recorded, and the next one of the same
\* attacker was refused for quota
C5_Witness ==
  /\ prev.cmd = "steal" /\ prev.out \in {"caught", "stolen"}
  /\ last.cmd = "steal" /\ last.who = prev.who
  /\ last.out = "QuotaExceeded"

\* C6: a daily claim is granted iff there is no prior claim or at least 24
\* hours have passed since it; a grant credits 100 * boostMultiplier and
\* sets last_daily to now; a refusal changes neither; of two claims less
\* than 24 hours apart the second is refused when the first was granted.
C6_DailyClaim ==
  last.cmd = "daily" =>
    LET old == PreAcct(last.who)
        new == users[last.who]
        eligible == \/ old.last_daily = Empty
                    \/ last.t - FromIsoFormat(old.last_daily) >= 24
    IN /\ last.out \in {"granted", "TooSoon"}
       /\ (last.out = "granted") <=> eligible
       /\ last.out = "granted" =>
            /\ new.balance = old.balance + 100 * LastMult
            /\ ParsesAsIso(new.last_daily)
            /\ FromIsoFormat(new.last_daily) = last.t
       /\ last.out = "TooSoon" =>
            /\ new.balance = old.balance
            /\ new.last_daily = old.last_daily
       /\ (prev.cmd = "daily" /\ prev.who = last.who /\ prev.out = "granted"
             /\ last.t - prev.t < 24) => last.out = "TooSoon"

\* two claims of one account within 24 hours: one grant, then one refusal
C6_Witness ==
  /\ prev.cmd = "daily" /\ prev.out = "granted"
  /\ last.cmd = "daily" /\ last.who = prev.who
  /\ last.out = "TooSoon"
  /\ last.t > prev.t

\* C7: buying a boost item twice in a row makes the second purchase fail
\* with AlreadyOwned (an owned item is refused as AlreadyOwned whatever the
\* balance), and the refusal changes nothing.
C7_SecondPurchaseAlreadyOwned ==
  (/\ prev.cmd = "acheter" /\ prev.out = "bought"
   /\ last.cmd = "acheter" /\ last.who = prev.who
   /\ NormalizeObjet(last.s) = NormalizeObjet(prev.s)
   /\ IsBoostName(NormalizeObjet(last.s))) =>
    (last.out = "AlreadyOwned" /\ users = pre)

----------------------------------------------------------------------------
(* Properties of the concurrent specification. *)

\* a gift whose body has run and whose reply is being sent
GiftReplied(h) == slot[h].pc = "sending" /\ slot[h].cmd = "don"

\* two gifts of one sender, both invoked before the body of either ran and
\* both read against the same balance, each no larger than that balance
GiftsInFlightTogether(h, k) ==
  /\ h # k
  /\ GiftReplied(h) /\ GiftReplied(k)
  /\ slot[h].who = slot[k].who
  /\ slot[h].at \in slot[k].open
  /\ slot[h].seen = slot[k].seen
  /\ \A j \in {h, k} :
       /\ ~IsBot(slot[j].whom) /\ slot[j].whom # slot[j].who
       /\ 0 < slot[j].n /\ slot[j].n <= slot[j].seen

\* C2 as stated: two gifts of one sender in flight together both pass the
\* balance check against the balance neither has debited yet, and both
\* debits are applied.
C2_BothGiftsPassStaleCheck ==
  \A h \in Slots, k \in Slots :
    GiftsInFlightTogether(h, k) =>
      (slot[h].out = "given" /\ slot[k].out = "given")

\* C2: don checks the sender's balance and applies the debit and the credit
\* with no await in between, so of two gifts of one sender in flight
\* together the second is checked against the balance the first has already
\* debited: an accepted gift never exceeds the balance its body found, both
\* are accepted only if the balance covers their sum, and no balance goes
\* below zero.
C2_GiftsCheckedAgainstCurrentBalance ==
  /\ \A id \in DOMAIN users : users[id].balance >= 0
  /\ \A h \in Slots :
       GiftReplied(h) =>
         /\ slot[h].out = "given" => slot[h].n <= slot[h].had
         /\ slot[h].out = "InsufficientFunds" => slot[h].n > slot[h].had
  /\ \A h \in Slots, k \in Slots :
       (GiftsInFlightTogether(h, k)
          /\ slot[h].out = "given" /\ slot[k].out = "given") =>
         slot[h].n + slot[k].n <= slot[h].seen

\* two gifts of one sender in flight together, each within the balance, the
\* balance short of their sum: one accepted, one refused
C2_Witness ==
  \E h \in Slots, k \in Slots :
    /\ GiftsInFlightTogether(h, k)
    /\ slot[h].out = "given"
    /\ slot[k].out = "InsufficientFunds"

BalancesKept(S) == \A id \in S : BalanceOf(users', id) = BalanceOf(users, id)

\* the step in which the body of the gift in slot h runs
GiftStep(h) ==
  /\ slot[h].pc = "invoked" /\ slot[h].cmd = "don"
  /\ slot'[h].pc = "sending"

GiftStepOK(h) ==
  LET c == slot[h]
      out == slot'[h].out
  IN /\ out = "given" =>
          /\ ~IsBot(c.whom) /\ c.whom # c.who
          /\ c.n > 0
          /\ BalanceOf(users, c.who) >= c.n
          /\ c.who \in DOMAIN users' /\ c.whom \in DOMAIN users'
          /\ users'[c.who].balance = BalanceOf(users, c.who) - c.n
          /\ users'[c.whom].balance = BalanceOf(users, c.whom) + c.n
          /\ users'[c.who].balance + users'[c.whom].balance
               = BalanceOf(users, c.who) + BalanceOf(users, c.whom)
          /\ BalancesKept(Members \ {c.who, c.whom})
          /\ \A id \in DOMAIN users \ {c.who, c.whom} : users'[id] = users[id]
     /\ out # "given" => BalancesKept(Members)

\* C8: a gift is accepted only for a receiver that is not a bot and not the
\* sender, an amount > 0 and a sender balance >= amount; the accepting step
\* debits the sender and credits the receiver by the amount at once, keeps
\* their sum and every other account; a refused gift changes no balance;
\* and no step other than the body of a command changes a balance, so no
\* state shows one side of a gift without the other.
C8_GiftIndivisible ==
  [][ /\ \A h \in Slots : GiftStep(h) => GiftStepOK(h)
      /\ (\A h \in Slots : slot[h].pc = "invoked" => slot'[h].pc = "invoked")
           => BalancesKept(Members) ]_vars

\* a gift was accepted while another handler was in flight
C8_Witness ==
  \E h \in Slots, k \in Slots :
    /\ h # k
    /\ GiftReplied(h) /\ slot[h].out = "given"
    /\ slot[k].pc \in {"invoked", "sending"}

----------------------------------------------------------------------------
(* Statistics, boosts, steals, the shop and the store. *)

Counters(acct) == <<acct.games_played, acct.total_winnings, acct.total_losses>>
\* the last command was a game whose stake was accepted
GameResolved == last.cmd \in Games /\ last.out \in Resolved
\* what the last game credited after the deduction of the stake
LastPayout == users[last.who].balance - last.mid

\* C11: an accepted game adds 1 to games_played and changes exactly one of
\* the other two counters: total_winnings grows by payout - stake when the
\* payout exceeds the stake, else total_losses grows by the stake; no other
\* command and no refused game changes a counter of any account.
C11_Statistics ==
  /\ GameResolved =>
       LET old == PreAcct(last.who)
           new == users[last.who]
       IN /\ new.games_played = old.games_played + 1
          /\ IF LastPayout > last.n
             THEN /\ new.total_winnings = old.total_winnings + (LastPayout - last.n)
                  /\ new.total_losses = old.total_losses
                  /\ LastPayout - last.n > 0
             ELSE /\ new.total_losses = old.total_losses + last.n
                  /\ new.total_winnings = old.total_winnings
                  /\ last.n > 0
  /\ \A id \in DOMAIN users :
       (~GameResolved \/ id # last.who) =>
         Counters(users[id]) = Counters(PreAcct(id))
  /\ \A id \in DOMAIN users : \A i \in 1..3 :
       Counters(users[id])[i] >= Counters(PreAcct(id))[i]

\* a game was won with a payout above the stake and recorded
C11_Witness ==
  /\ GameResolved
  /\ last.out = "win"
  /\ LastPayout > last.n
  /\ users[last.who].total_winnings > PreAcct(last.who).total_winnings

----------------------------------------------------------------------------
(* The boost helpers on their own: the account is any record users.json    *)
(* may hold, the calls are those the handlers make.                        *)

BoostEnds ==
  {Empty, Garbage} \cup {IsoFormat(t) : t \in (StartHour - 1)..(StartHour + 2)}
BoostItemLists ==
  {<< >>, <<"boost_x2">>, <<"boost_x3">>, <<"boost_x2", "boost_x3">>,
   <<"boost_x3", "boost_x2">>, <<"badge">>, <<"extra_steal", "boost_x2">>}
BoostAccounts ==
  {[DefaultAccount EXCEPT !.boost_end = e, !.items = i] :
     e \in BoostEnds, i \in BoostItemLists}
BoostAmounts == {0, 7, 100}

BoostInit ==
  /\ users \in {("u1" :> acct) : acct \in BoostAccounts}
  /\ disk = users
  /\ now = StartHour
  /\ slot = [h \in Slots |-> Idle]
  /\ pre = users
  /\ last = NoCmd
  /\ prev = NoCmd
  /\ cmds = 0

\* a call of get_boost_multiplier(user): gain holds what it returns
DoGetBoostMultiplier ==
  \E a \in DOMAIN users :
    /\ last' = [NoCmd EXCEPT !.cmd = "get_boost_multiplier", !.who = a,
                             !.gain = GetBoostMultiplier(users[a], now),
                             !.t = now]
    /\ UNCHANGED <<users, disk, now, slot, pre, prev, cmds>>

\* a call of apply_boost(montant, user): gain holds what it returns
DoApplyBoost ==
  \E a \in DOMAIN users, montant \in BoostAmounts :
    /\ last' = [NoCmd EXCEPT !.cmd = "apply_boost", !.who = a, !.n = montant,
                             !.gain = ApplyBoost(montant, users[a], now),
                             !.t = now]
    /\ UNCHANGED <<users, disk, now, slot, pre, prev, cmds>>

BoostNext ==
  \/ DoGetBoostMultiplier
  \/ DoApplyBoost
  \/ Tick

BoostSpec == BoostInit /\ [][BoostNext]_vars

\* the multiplier as the claim words it, for the account and hour of the
\* last call
ClaimedMultiplier ==
  LET u == users[last.who]
      active == /\ u.boost_end # Empty
                /\ u.boost_end # Garbage
                /\ FromIsoFormat(u.boost_end) > last.t
  IN IF ~active THEN 1
     ELSE IF In("boost_x3", u.items) THEN 3
     ELSE IF In("boost_x2", u.items) THEN 2
     ELSE 1

\* C12: the boost multiplier is 1 when boost_end is unset, unparsable or not
\* strictly later than now; otherwise 3 with boost_x3, else 2 with boost_x2,
\* else 1; it is always 1, 2 or 3 and apply_boost(amount) is amount times it.
C12_BoostMultiplier ==
  /\ last.cmd = "get_boost_multiplier" =>
       (last.gain = ClaimedMultiplier /\ last.gain \in {1, 2, 3})
  /\ last.cmd = "apply_boost" => last.gain = last.n * ClaimedMultiplier

\* both boosts owned and active: the multiplier returned is 3
C12_Witness ==
  /\ last.cmd = "get_boost_multiplier"
  /\ In("boost_x2", users[last.who].items)
  /\ In("boost_x3", users[last.who].items)
  /\ users[last.who].boost_end = IsoFormat(last.t + 1)
  /\ last.gain = 3

----------------------------------------------------------------------------
(* Steals against victims around the thresholds of the command.            *)

\* around the minimum of 50 and around 200, where balance // 2 reaches 100
VictimBalances == {49, 50, 51, 199, 200, 201}
Attackers == {DefaultAccount, AcctBoosted}

StealInit ==
  /\ users \in {("u1" :> att) @@ ("u2" :> [DefaultAccount EXCEPT !.balance = b]) :
                  att \in Attackers, b \in VictimBalances}
  /\ disk = users
  /\ now = StartHour
  /\ slot = [h \in Slots |-> Idle]
  /\ pre = users
  /\ last = NoCmd
  /\ prev = NoCmd
  /\ cmds = 0

StealNext ==
  \/ Ready(MaxSeqCmds) /\ DoSteal
  \/ Tick

StealSpec == StealInit /\ [][StealNext]_vars

\* the last command was a steal of another member who is not a bot
StealOfMember ==
  last.cmd = "steal" /\ last.whom # last.who /\ ~IsBot(last.whom)

\* C13: a successful steal moves an amount a, 20 <= a <= min(100,
\* floor(victim balance / 2)), from the victim to the attacker: their sum and
\* every other balance are unchanged and the victim stays >= 0; a caught
\* steal changes no balance; a victim with balance >= 50 always has a
\* non-empty range.
C13_StealAmount ==
  last.cmd = "steal" =>
    /\ last.out = "stolen" =>
         LET b == PreBal(last.whom)
             a == users[last.who].balance - PreBal(last.who)
         IN /\ StealOfMember
            /\ 20 <= a /\ a <= 100 /\ a <= b \div 2
            /\ users[last.whom].balance = b - a
            /\ users[last.whom].balance >= 0
            /\ users[last.who].balance + users[last.whom].balance
                 = PreBal(last.who) + b
            /\ \A id \in DOMAIN users \ {last.who, last.whom} :
                 users[id].balance = PreBal(id)
    /\ last.out = "caught" => BalancesUnchanged
    /\ (StealOfMember /\ PreBal(last.whom) >= 50) =>
         StealRange(PreBal(last.whom)) # {}
    /\ last.out \in {"stolen", "caught"} => PreBal(last.whom) >= 50

\* a victim with exactly 50 was robbed of the largest amount, 25
C13_Witness ==
  /\ last.cmd = "steal" /\ last.out = "stolen"
  /\ PreBal(last.whom) = 50
  /\ users[last.whom].balance = 25

\* C14 as stated: a steal against another member who is not a bot and whose
\* balance is below 50 fails with VictimTooPoor, changes no balance and adds
\* no stamp.
C14_PoorVictimAlwaysTooPoor ==
  (StealOfMember /\ PreBal(last.whom) < 50) =>
    /\ last.out = "VictimTooPoor"
    /\ BalancesUnchanged
    /\ users[last.who].steals = KeptSteals

\* C14: a steal against another member who is not a bot and whose balance is
\* below 50 fails, changes no balance and adds no stamp; it fails with
\* VictimTooPoor when the attacker's quota of the day is not exhausted and
\* with QuotaExceeded when it is, the quota being tested first.
C14_PoorVictim ==
  (StealOfMember /\ PreBal(last.whom) < 50) =>
    /\ last.out = IF Len(KeptSteals) >= ClaimedQuota
                  THEN "QuotaExceeded" ELSE "VictimTooPoor"
    /\ BalancesUnchanged
    /\ users[last.who].steals = KeptSteals

\* a victim with 49 was refused as too poor
C14_Witness ==
  /\ StealOfMember
  /\ PreBal(last.whom) = 49
  /\ last.out = "VictimTooPoor"

----------------------------------------------------------------------------
(* get_hand_value on its own, on every hand of up to MaxHandLen cards.     *)

RECURSIVE HandsOfLen(_)
HandsOfLen(n) ==
  IF n = 0 THEN {<< >>}
  ELSE {Append(h, c) : h \in HandsOfLen(n - 1), c \in Cards}
Hands == UNION {HandsOfLen(n) : n \in 1..MaxHandLen}

\* the hand about to be valued is held in draw
HandInit ==
  /\ users = NoUsers
  /\ disk = users
  /\ now = StartHour
  /\ slot = [h \in Slots |-> Idle]
  /\ pre = users
  /\ last \in {[NoCmd EXCEPT !.draw = cards] : cards \in Hands}
  /\ prev = NoCmd
  /\ cmds = 0

\* the call of get_hand_value(cards): gain holds the result
DoGetHandValue ==
  /\ last.cmd = "none"
  /\ last' = [last EXCEPT !.cmd = "get_hand_value",
                          !.gain = GetHandValue(last.draw)]
  /\ UNCHANGED <<users, disk, now, slot, pre, prev, cmds>>

HandNext == DoGetHandValue

HandSpec == HandInit /\ [][HandNext]_vars

\* C15: the hand value is the plain sum less 10 for j of the cards valued
\* 11, where a further reduction is made only while the total exceeds 21 and
\* an unreduced 11 remains; <<11, 11, 10>> gives 12 and <<10, 10, 5>> keeps
\* 25, a bust.
C15_HandValue ==
  last.cmd = "get_hand_value" =>
    LET s == SumCards(last.draw)
        k == CountElevens(last.draw)
        v == last.gain
    IN /\ \E j \in 0..k :
            /\ v = s - 10 * j
            /\ j < k => v <= 21
            /\ j > 0 => v + 10 > 21
       /\ k = 0 => v = s
       /\ last.draw = <<11, 11, 10>> => v = 12
       /\ last.draw = <<10, 10, 5>> => (v = 25 /\ v > BlackjackLimit)

\* the hand of two 11s and a 10 was valued, with two reductions
C15_Witness ==
  /\ last.cmd = "get_hand_value"
  /\ last.draw = <<11, 11, 10>>
  /\ last.gain = 12

----------------------------------------------------------------------------
(* Records of users.json that lack fields.  get_user_data returns a stored *)
(* record as it is; user["f"] raises KeyError when f is absent, which ends *)
(* the handler where it stands (on_command_error reports it), and          *)
(* user.get("f", d) reads d.  daily and coinflip are followed line by line. *)

Has(user, f) == f \in DOMAIN user
Get(user, f, d) == IF Has(user, f) THEN user[f] ELSE d
Put(user, f, v) == [g \in DOMAIN user \cup {f} |-> IF g = f THEN v ELSE user[g]]
KeyError(us) == Res(us, "KeyError", FALSE, -1, 0)

\* has_boost reads boost_end with .get
HasBoostLoaded(user, t) ==
  LET boost_end == Get(user, "boost_end", Empty)
  IN IF boost_end # Empty
     THEN IF ParsesAsIso(boost_end) THEN t < FromIsoFormat(boost_end) ELSE FALSE
     ELSE FALSE

\* get_boost_multiplier: -1 stands for the KeyError of user["items"]
GetBoostMultiplierLoaded(user, t) ==
  IF ~HasBoostLoaded(user, t) THEN 1
  ELSE IF ~Has(user, "items") THEN -1
  ELSE IF In("boost_x3", user.items) THEN 3
  ELSE IF In("boost_x2", user.items) THEN 2
  ELSE 1

DailyLoaded(us, a, t) ==
  LET us1 == GetUserData(us, a)
      user == us1[a]
      last_daily_str == Get(user, "last_daily", Empty)
      tooSoon == /\ last_daily_str # Empty
                 /\ ParsesAsIso(last_daily_str)
                 /\ t - FromIsoFormat(last_daily_str) < DailyHours
      mult == GetBoostMultiplierLoaded(user, t)
  IN IF tooSoon THEN Rejected(us1, "TooSoon")
     ELSE IF mult = -1 THEN KeyError(us1)
     ELSE IF ~Has(user, "balance") THEN KeyError(us1)
     ELSE LET gain == DailyBase * mult
              u2 == Put([user EXCEPT !.balance = @ + gain],
                        "last_daily", IsoFormat(t))
          IN Res([us1 EXCEPT ![a] = u2], "granted", TRUE, -1, gain)

\* record_game_result on the mapping: the increments made before a KeyError
\* stay in memory
RecordGameResultLoaded(us, a, mise, gain, kind, mid) ==
  LET user == us[a]
  IN IF ~Has(user, "games_played") THEN KeyError(us)
     ELSE LET u1 == [user EXCEPT !.games_played = @ + 1]
              us1 == [us EXCEPT ![a] = u1]
          IN IF gain > mise
             THEN IF ~Has(u1, "total_winnings") THEN KeyError(us1)
                  ELSE Res([us EXCEPT ![a] =
                              [u1 EXCEPT !.total_winnings = @ + (gain - mise)]],
                           kind, TRUE, mid, gain)
             ELSE IF ~Has(u1, "total_losses") THEN KeyError(us1)
                  ELSE Res([us EXCEPT ![a] =
                              [u1 EXCEPT !.total_losses = @ + mise]],
                           kind, TRUE, mid, gain)

CoinflipLoaded(us, a, mise, player_choice, bot_choice, t) ==
  LET us1 == GetUserData(us, a)
      user == us1[a]
  IN IF mise <= 0 THEN Rejected(us1, "NotPositive")
     ELSE IF ~Has(user, "balance") THEN KeyError(us1)
     ELSE IF mise > user.balance THEN Rejected(us1, "Insufficient")
     ELSE LET deducted == [user EXCEPT !.balance = @ - mise]
              us2 == [us1 EXCEPT ![a] = deducted]
              mult == GetBoostMultiplierLoaded(deducted, t)
          IN IF player_choice = bot_choice
             THEN IF mult = -1 THEN KeyError(us2)
                  ELSE LET gain == mise * 2 * mult
                           us3 == [us2 EXCEPT ![a].balance = @ + gain]
                       IN RecordGameResultLoaded(us3, a, mise, gain, "win",
                                                 deducted.balance)
             ELSE RecordGameResultLoaded(us2, a, mise, 0, "lose",
                                         deducted.balance)

Fields == DOMAIN DefaultAccount
Without(acct, f) == [g \in DOMAIN acct \ {f} |-> acct[g]]
\* the record with every absent field at its creation default
Fill(acct) == [g \in Fields |-> Get(acct, g, DefaultAccount[g])]
FillAll(us) == [id \in DOMAIN us |-> Fill(us[id])]

\* complete records and records that lack one field
LoadedRecords ==
  {AcctRich, AcctBoosted}
    \cup {Without(acct, f) : acct \in {AcctRich, AcctBoosted}, f \in Fields}

LoadedInit ==
  /\ users \in {("u1" :> acct) : acct \in LoadedRecords}
  /\ disk = users
  /\ now = StartHour
  /\ slot = [h \in Slots |-> Idle]
  /\ pre = users
  /\ last = NoCmd
  /\ prev = NoCmd
  /\ cmds = 0

LoadedStakes(us, a) == Stakes(Get(GetUserData(us, a)[a], "balance", StartBalance))

DoDailyLoaded ==
  \E a \in Authors :
    Run(DailyLoaded(users, a, now), "daily", a, "", 0, "", << >>)

DoCoinflipLoaded ==
  \E a \in Authors : \E mise \in LoadedStakes(users, a) :
    \E pc \in Faces, bc \in Faces :
      Run(CoinflipLoaded(users, a, mise, pc, bc, now),
          "coinflip", a, "", mise, "", <<pc, bc>>)

LoadedNext ==
  \/ Ready(MaxCmds) /\ DoDailyLoaded
  \/ Ready(MaxCmds) /\ DoCoinflipLoaded

LoadedSpec == LoadedInit /\ [][LoadedNext]_vars

\* the last command run on the records with their absent fields filled in
AsIfDefaulted ==
  CASE last.cmd = "daily" -> Daily(FillAll(pre), last.who, last.t)
    [] last.cmd = "coinflip" ->
         IF last.out \in Resolved
         THEN Coinflip(FillAll(pre), last.who, last.n,
                       last.draw[1], last.draw[2], last.t)
         ELSE Coinflip(FillAll(pre), last.who, last.n, "pile", "face", last.t)

\* C16: on a loaded record that lacks fields every command behaves as if
\* each absent field held its creation default, and no command fails.
C16_MissingFieldsDefaulted ==
  last.cmd \in {"daily", "coinflip"} =>
    /\ last.out # "KeyError"
    /\ last.out = AsIfDefaulted.out
    /\ FillAll(users) = AsIfDefaulted.users

----------------------------------------------------------------------------
(* A game among concurrent handlers: coinflip runs from its first line to  *)
(* the first await of wait_and_send, then waits for the send of the gif,   *)
(* for asyncio.sleep and for msg.edit; gifts are the other commands.       *)

InvokeCoinflip ==
  \E h \in Slots, a \in Authors :
    \E mise \in Stakes(BalanceOf(users, a)) :
      Dispatch(h, "coinflip", a, "", mise)

\* coinflip up to its first await: the ctx.send of a refusal, or the
\* ctx.send of the gif in wait_and_send after save_users()
BeginCoinflip(h) ==
  /\ slot[h].pc = "invoked"
  /\ slot[h].cmd = "coinflip"
  /\ LET c == slot[h]
     IN \E player_choice \in Faces, bot_choice \in Faces :
          LET r == Coinflip(users, c.who, c.n, player_choice, bot_choice, now)
          IN /\ users' = r.users
             /\ disk' = IF r.save THEN SaveUsers(r.users, disk, "ok") ELSE disk
             /\ slot' = [slot EXCEPT ![h].pc = "sending",
                                     ![h].out = r.out,
                                     ![h].had = BalanceOf(users, c.who)]
  /\ UNCHANGED <<now, pre, last, prev, cmds>>

GameSuspended(h) == slot[h].cmd \in Games /\ slot[h].out \in Resolved

\* msg = await ctx.send(embed=gif_embed) returns
SentGif(h) ==
  /\ slot[h].pc = "sending"
  /\ GameSuspended(h)
  /\ slot' = [slot EXCEPT ![h].pc = "sleeping"]
  /\ UNCHANGED <<users, disk, now, pre, last, prev, cmds>>

\* await asyncio.sleep(duration) returns
Slept(h) ==
  /\ slot[h].pc = "sleeping"
  /\ slot' = [slot EXCEPT ![h].pc = "editing"]
  /\ UNCHANGED <<users, disk, now, pre, last, prev, cmds>>

\* await msg.edit(embed=result_embed) returns and the handler ends
Edited(h) ==
  /\ slot[h].pc = "editing"
  /\ slot' = [slot EXCEPT ![h] = Idle]
  /\ UNCHANGED <<users, disk, now, pre, last, prev, cmds>>

GameConcNext ==
  \/ InvokeCoinflip
  \/ InvokeDon
  \/ \E h \in Slots : BeginCoinflip(h)
  \/ \E h \in Slots : BeginDon(h)
  \/ \E h \in Slots : Resume(h)
  \/ \E h \in Slots : SentGif(h)
  \/ \E h \in Slots : Slept(h)
  \/ \E h \in Slots : Edited(h)

\* the store with an active boost, so that a win is paid with a multiplier
GameConcInit == Init /\ users = ("u1" :> AcctBoosted) @@ ("u2" :> AcctTriple)

GameConcSpec == GameConcInit /\ [][GameConcNext]_vars

CountersKept ==
  \A id \in DOMAIN users :
    id \in DOMAIN users' /\ Counters(users'[id]) = Counters(users[id])

\* the step in which the body of the game in slot h runs
GameStep(h) ==
  /\ slot[h].pc = "invoked" /\ slot[h].cmd = "coinflip"
  /\ slot'[h].pc # "invoked"

GameStepOK(h) ==
  LET c == slot[h]
      out == slot'[h].out
      old == GetUserData(users, c.who)[c.who]
      new == users'[c.who]
      mult == GetBoostMultiplier(old, now)
  IN /\ slot'[h].pc = "sending"
     /\ out \in Resolved =>
          /\ 0 < c.n /\ c.n <= old.balance
          /\ new.games_played = old.games_played + 1
          /\ out = "win" =>
               /\ new.balance = old.balance - c.n + 2 * c.n * mult
               /\ new.total_winnings = old.total_winnings + 2 * c.n * mult - c.n
               /\ new.total_losses = old.total_losses
          /\ out = "lose" =>
               /\ new.balance = old.balance - c.n
               /\ new.total_losses = old.total_losses + c.n
               /\ new.total_winnings = old.total_winnings
          /\ out # "push"
          /\ disk' = users'
     /\ out \notin Resolved => (BalancesKept(Members) /\ CountersKept)

\* C17: the step that validates and deducts the stake of a game also credits
\* the payout or leaves the loss, records the statistics and saves the
\* store, and only then does the handler suspend (in wait_and_send); a
\* suspended game changes nothing further, so no step of another command
\* starts from an account whose stake is deducted and whose outcome is not
\* applied.
C17_GameResolvesBeforeSuspending ==
  [][ /\ \A h \in Slots : GameStep(h) => GameStepOK(h)
      /\ (\A h \in Slots : slot[h].pc = "invoked" => slot'[h].pc = "invoked")
           => (BalancesKept(Members) /\ CountersKept /\ disk' = disk)
      /\ \A h \in Slots :
           (slot[h].pc \in {"sending", "sleeping", "editing"} /\ GameSuspended(h))
             => slot'[h].pc \in {"sending", "sleeping", "editing", "idle"} ]_vars

\* a game is suspended in its animation with its outcome applied and saved,
\* and a gift of the same player, invoked after the outcome, has run
C17_Witness ==
  \E h \in Slots, k \in Slots :
    /\ slot[h].pc = "sleeping" /\ slot[h].cmd = "coinflip"
    /\ slot[h].out = "lose"
    /\ slot[k].pc = "sending" /\ slot[k].cmd = "don"
    /\ slot[k].who = slot[h].who
    /\ slot[k].at > slot[h].at
    /\ slot[k].seen = slot[h].had - slot[h].n

----------------------------------------------------------------------------
(* Steals of one attacker among concurrent handlers. *)

\* the stamps of today in the record of id
TodayStamps(us, id) ==
  Len(SelectSeq(GetUserData(us, id)[id].steals, LAMBDA d : d = DateStr(now)))

\* the step in which the steal in slot h is resolved: its body runs and
\* takes the coins, or the caught handler resumes after its message
StealResolves(h) ==
  /\ slot[h].pc # "idle"
  /\ slot[h].cmd = "steal"
  /\ \/ slot[h].pc = "invoked" /\ slot'[h].pc = "sending"
          /\ slot'[h].out = "stolen"
     \/ slot[h].pc = "sending" /\ slot[h].out = "caught"
          /\ slot'[h].pc = "idle"

\* C18: with the steals of one attacker interleaved at their awaits, every
\* resolved attempt adds one stamp of today to those recorded so far, so
\* that no stamp written by another handler is lost, and the stamps of one
\* day, one per resolved attempt, never exceed the quota of 3 (4 with
\* extra_steal).
C18_InterleavedStealsKeepQuota ==
  [][ /\ \A h \in Slots :
           StealResolves(h) =>
             /\ TodayStamps(users', slot[h].who)
                  = TodayStamps(users, slot[h].who) + 1
             /\ TodayStamps(users', slot[h].who)
                  <= MaxSteals(users'[slot[h].who])
      /\ \A id \in Authors :
           TodayStamps(users', id) >= TodayStamps(users, id) ]_vars

----------------------------------------------------------------------------
(* The shop on its own, for buyers who can afford several items.           *)

Shoppers ==
  {[DefaultAccount EXCEPT !.balance = 5000],
   [AcctBoosted EXCEPT !.balance = 5000],
   [DefaultAccount EXCEPT !.balance = 1200]}

ShopInit ==
  /\ users \in {("u1" :> acct) : acct \in Shoppers}
  /\ disk = users
  /\ now = StartHour
  /\ slot = [h \in Slots |-> Idle]
  /\ pre = users
  /\ last = NoCmd
  /\ prev = NoCmd
  /\ cmds = 0

ShopNext ==
  \/ Ready(MaxSeqCmds) /\ DoAcheter
  \/ Tick

ShopSpec == ShopInit /\ [][ShopNext]_vars

NoDuplicates(seq) == \A i, j \in 1..Len(seq) : seq[i] = seq[j] => i = j
IsPrefix(s, t) == Len(s) <= Len(t) /\ \A i \in 1..Len(s) : s[i] = t[i]
ClaimedPrice(objet) ==
  CASE objet = "role_vip" -> 1000 [] objet = "ticket_loterie" -> 250
    [] objet = "boost_x2" -> 1200 [] objet = "emoji_special" -> 300
    [] objet = "badge" -> 500 [] objet = "boost_x3" -> 2000
    [] objet = "skin_slot" -> 900 [] objet = "extra_steal" -> 1500

\* C19: a successful purchase deducts the price, appends the item, which
\* was not owned, once to the items, sets boost_end to now + 1 hour iff the
\* item is a boost (over any earlier value) and otherwise leaves it, and
\* changes nothing else; the items never hold a duplicate and never lose an
\* entry.
C19_Purchase ==
  /\ (last.cmd = "acheter" /\ last.out = "bought") =>
       LET objet == NormalizeObjet(last.s)
           old == PreAcct(last.who)
           new == users[last.who]
       IN /\ new.balance = old.balance - ClaimedPrice(objet)
          /\ ~In(objet, old.items)
          /\ new.items = Append(old.items, objet)
          /\ new.boost_end = IF objet \in {"boost_x2", "boost_x3"}
                             THEN IsoFormat(last.t + 1)
                             ELSE old.boost_end
          /\ new = [old EXCEPT !.balance = new.balance, !.items = new.items,
                               !.boost_end = new.boost_end]
          /\ \A id \in DOMAIN users \ {last.who} : users[id] = PreAcct(id)
  /\ \A id \in DOMAIN users :
       /\ NoDuplicates(users[id].items)
       /\ IsPrefix(PreAcct(id).items, users[id].items)

\* a second boost was bought while an earlier expiry was set, and the
\* expiry was overwritten
C19_Witness ==
  /\ last.cmd = "acheter" /\ last.out = "bought"
  /\ NormalizeObjet(last.s) = "boost_x3"
  /\ PreAcct(last.who).boost_end # Empty
  /\ PreAcct(last.who).boost_end # users[last.who].boost_end

----------------------------------------------------------------------------
(* The store against the mapping in memory. *)

Days == 0..DateStr(StartHour + MaxTicks + 1)

\* the record in memory is the persisted one, possibly with its stamps
\* pruned to those of one day
SameButPruned(mem, file) ==
  \/ mem = file
  \/ \E d \in Days :
       mem = [file EXCEPT !.steals = SelectSeq(@, LAMBDA s : s = d)]

\* a record differs from what it was before the last command in more than
\* the pruning of its stamps
Mutated(id) ==
  /\ users[id] # PreAcct(id)
  /\ \A d \in Days :
       users[id] # [PreAcct(id) EXCEPT !.steals = SelectSeq(@, LAMBDA s : s = d)]

\* C20 as stated: whenever a command has finished (and no save failed) the
\* persisted mapping equals the mapping in memory.
C20_PersistedEqualsMemory == disk = users

\* C20: a command that changes a balance, the items, a timestamp, a counter
\* or adds a stamp saves the whole mapping before it ends, and right after
\* a save the file equals the memory; a command that is refused or only
\* displays saves nothing although its lookups may have created default
\* accounts and steal may have pruned stamps of earlier days, so between
\* saves the file holds every account it has as in memory up to that
\* pruning, and the accounts it lacks are default accounts.
C20_PersistedUpToDefaults ==
  /\ last.saved => disk = users
  /\ \A id \in DOMAIN users : Mutated(id) => last.saved
  /\ DOMAIN disk \subseteq DOMAIN users
  /\ \A id \in DOMAIN users :
       IF id \in DOMAIN disk
       THEN SameButPruned(users[id], disk[id])
       ELSE users[id] = DefaultAccount

\* a command changed an account and saved: the file equals the memory
C20_Witness ==
  /\ last.saved
  /\ users # pre
  /\ disk = users
  /\ \E id \in DOMAIN users : Mutated(id)

----------------------------------------------------------------------------
(* Saves that fail, and the load at the next start of the program.         *)

\* how save_users can end: the dump is written, open() raises, or the write
\* raises after open(.., "w") has truncated the file
SaveOutcomes == {"ok", "open_fails", "dump_fails"}

\* the module-level load: a missing file and a file that is not JSON both
\* give the empty mapping
LoadUsers(d) == IF d = Truncated THEN NoUsers ELSE d

\* a command run to its end whose save_users() ends as io; save_users
\* catches every exception, so the handler goes on to its reply
RunIO(r, cmd, a, whom, n, s, io) ==
  /\ pre' = users
  /\ users' = r.users
  /\ disk' = IF r.save THEN SaveUsers(r.users, disk, io) ELSE disk
  /\ last' = [cmd |-> cmd, who |-> a, whom |-> whom, n |-> n, s |-> s,
              draw |-> << >>, out |-> r.out, saved |-> r.save,
              mid |-> r.mid, gain |-> r.gain, t |-> now,
              io |-> IF r.save THEN io ELSE "none", file |-> disk]
  /\ prev' = last
  /\ cmds' = cmds + 1
  /\ UNCHANGED <<now, slot>>

DoDailyIO ==
  \E a \in Authors, io \in SaveOutcomes :
    RunIO(Daily(users, a, now), "daily", a, "", 0, "", io)

DoAcheterIO ==
  \E a \in Authors, objet \in Objets, io \in SaveOutcomes :
    RunIO(Acheter(users, a, objet, now), "acheter", a, "", 0, objet, io)

DoDonIO ==
  \E a \in Authors, membre \in Members, io \in SaveOutcomes :
    \E montant \in Montants(BalanceOf(users, a)) :
      RunIO(Don(users, a, membre, montant), "don", a, membre, montant, "", io)

\* the program is started again and loads users.json
Restart ==
  /\ last.cmd \notin {"none", "restart"}
  /\ \A h \in Slots : slot[h].pc = "idle"
  /\ users' = LoadUsers(disk)
  /\ pre' = users
  /\ last' = [NoCmd EXCEPT !.cmd = "restart"]
  /\ prev' = last
  /\ UNCHANGED <<disk, now, slot, cmds>>

SaveNext ==
  \/ Ready(MaxCmds) /\ DoDailyIO
  \/ Ready(MaxCmds) /\ DoAcheterIO
  \/ Ready(MaxCmds) /\ DoDonIO
  \/ Restart
  \/ Tick

SaveSpec == Init /\ [][SaveNext]_vars

\* the last command called save_users() and the save failed
SaveFailed ==
  /\ last.cmd \notin {"none", "restart"}
  /\ last.saved
  /\ last.io # "ok"

\* C21: a save that fails at any point does not abort the command (its
\* outcome is the one of the same command with a working save), does not
\* roll back the mutation in memory, and leaves users.json holding the
\* mapping persisted before, so that a later load returns that mapping.
C21_FailedSaveKeepsStore ==
  SaveFailed =>
    /\ last.out = Invoke(pre, last).out
    /\ users = Invoke(pre, last).users
    /\ disk = last.file
    /\ LoadUsers(disk) = LoadUsers(last.file)

\* C21, the part that holds: the failed save neither aborts the command nor
\* rolls back the memory, and when open() itself failed the file is the one
\* persisted before.
C21_FailedSaveKeepsMemory ==
  SaveFailed =>
    /\ last.out = Invoke(pre, last).out
    /\ users = Invoke(pre, last).users
    /\ users # pre
    /\ last.io = "open_fails" => disk = last.file

\* a save failed after the file was opened, the program was started again
\* and has lost every account
C21_Witness ==
  /\ last.cmd = "restart"
  /\ prev.cmd # "none"
  /\ prev.saved
  /\ prev.io = "dump_fails"
  /\ prev.file # NoUsers
  /\ disk = Truncated
  /\ users = NoUsers

----------------------------------------------------------------------------
(* Daily, game, purchase, steal and gift handlers among one another: each  *)
(* body runs from its first line to its first await without interruption.  *)

\* the items asked for: one the richer account can pay twice, one it can
\* pay once
MixObjets == {"badge", "boost_x3"}

InvokeDaily ==
  \E h \in Slots, a \in Authors : Dispatch(h, "daily", a, "", 0)

\* the field `whom` of the invocation holds the name of the item
InvokeAcheter ==
  \E h \in Slots, a \in Authors, objet \in MixObjets :
    Dispatch(h, "acheter", a, objet, 0)

\* daily up to the ctx.send of its reply
BeginDaily(h) ==
  /\ slot[h].pc = "invoked"
  /\ slot[h].cmd = "daily"
  /\ LET c == slot[h]
         r == Daily(users, c.who, now)
     IN /\ users' = r.users
        /\ disk' = IF r.save THEN SaveUsers(r.users, disk, "ok") ELSE disk
        /\ slot' = [slot EXCEPT ![h].pc = "sending",
                                ![h].out = r.out,
                                ![h].had = BalanceOf(users, c.who)]
  /\ UNCHANGED <<now, pre, last, prev, cmds>>

\* acheter up to the ctx.send of its reply
BeginAcheter(h) ==
  /\ slot[h].pc = "invoked"
  /\ slot[h].cmd = "acheter"
  /\ LET c == slot[h]
         r == Acheter(users, c.who, c.whom, now)
     IN /\ users' = r.users
        /\ disk' = IF r.save THEN SaveUsers(r.users, disk, "ok") ELSE disk
        /\ slot' = [slot EXCEPT ![h].pc = "sending",
                                ![h].out = r.out,
                                ![h].had = BalanceOf(users, c.who)]
  /\ UNCHANGED <<now, pre, last, prev, cmds>>

\* the stakes and gifts asked for: one coin, and all the caller has when the
\* command is sent
MixAmounts(bal) == {1, bal}

InvokeCoinflipMix ==
  \E h \in Slots, a \in Authors :
    \E mise \in MixAmounts(BalanceOf(users, a)) :
      Dispatch(h, "coinflip", a, "", mise)

InvokeStealMix ==
  \E h \in Slots, a \in Authors :
    \E cible \in Authors \ {a} : Dispatch(h, "steal", a, cible, 0)

InvokeDonMix ==
  \E h \in Slots, a \in Authors :
    \E membre \in Authors \ {a}, montant \in MixAmounts(BalanceOf(users, a)) :
      Dispatch(h, "don", a, membre, montant)

MixNext ==
  \/ InvokeDaily
  \/ InvokeCoinflipMix
  \/ InvokeAcheter
  \/ InvokeStealMix
  \/ InvokeDonMix
  \/ \E h \in Slots : BeginDaily(h)
  \/ \E h \in Slots : BeginCoinflip(h)
  \/ \E h \in Slots : BeginAcheter(h)
  \/ \E h \in Slots : BeginSteal(h)
  \/ \E h \in Slots : BeginDon(h)
  \/ \E h \in Slots : Resume(h)
  \/ \E h \in Slots : SentGif(h)
  \/ \E h \in Slots : Slept(h)
  \/ \E h \in Slots : Edited(h)

\* a store whose accounts can pay for a purchase and be stolen from
MixInit == Init /\ users = ("u1" :> AcctRich) @@ ("u2" :> AcctBoosted)

MixSpec == MixInit /\ [][MixNext]_vars

\* the account whose balance the handler in slot h checks and debits
Debited(h) == IF slot[h].cmd = "steal" THEN slot[h].whom ELSE slot[h].who

\* the outcomes that follow a successful balance check and carry a debit
Accepted == {"win", "lose", "bought", "stolen", "given"}

\* the step in which the body of the handler in slot h runs
BodyStep(h) == slot[h].pc = "invoked" /\ slot'[h].pc = "sending"

\* the amounts the handler in slot h may take from a balance of `bal` once
\* its check has passed on that balance
Debits(h, bal) ==
  LET c == slot[h]
  IN CASE c.cmd \in {"coinflip", "don"} ->
            IF 0 < c.n /\ c.n <= bal THEN {c.n} ELSE {}
       [] c.cmd = "acheter" ->
            IF ShopPrix[NormalizeObjet(c.whom)] <= bal
            THEN {ShopPrix[NormalizeObjet(c.whom)]} ELSE {}
       [] c.cmd = "steal" ->
            IF bal >= StealMinVictim THEN {g \in StealRange(bal) : g <= bal} ELSE {}
       [] OTHER -> {}

\* every decrease of a balance happens in the step in which a handler's
\* body runs, that step has checked the balance the step started from, and
\* the decrease is an amount that check allows
DebitInCheckStep ==
  \A id \in Authors :
    BalanceOf(users', id) < BalanceOf(users, id) =>
      \E h \in Slots :
        /\ BodyStep(h)
        /\ id = Debited(h)
        /\ slot'[h].out \in Accepted
        /\ BalanceOf(users, id) - BalanceOf(users', id)
             \in Debits(h, BalanceOf(users, id))

\* C22: under any interleaving of daily, game, purchase, steal and gift
\* handlers no handler suspends between a successful balance check and the
\* matching debit (every debit is made in the step that checked the balance
\* it debits), so no balance ever becomes negative.
C22_NoNegativeBalance ==
  /\ [](\A id \in DOMAIN users : users[id].balance >= 0)
  /\ [][DebitInCheckStep]_vars

\* two handlers of one user were both invoked for all the user had before
\* either body ran; the first was accepted and emptied the account, the
\* second was checked against the emptied account and refused
C22_Witness ==
  \E h \in Slots, k \in Slots :
    /\ slot[h].pc = "sending" /\ slot[k].pc = "sending"
    /\ slot[h].who = slot[k].who
    /\ slot[h].at \in slot[k].open
    /\ slot[h].n = slot[h].seen /\ slot[k].n = slot[k].seen
    /\ slot[h].seen = slot[k].seen
    /\ slot[h].out \in {"lose", "given"}
    /\ slot[k].out \in {"Insufficient", "InsufficientFunds"}
    /\ users[slot[h].who].balance = 0

----------------------------------------------------------------------------
(* The caller's hand in blackjack. *)

\* C23: the caller's total, the value of exactly two cards drawn from 1..11,
\* is between 2 and 21, so the test player_total > 21 that leads to the
\* "bust" loss is false for every draw.
C23_CallerNeverBusts ==
  /\ PlayerTotals \subseteq 2..21
  /\ (last.cmd = "get_hand_value" /\ Len(last.draw) = 2) =>
       /\ last.draw[1] \in 1..11 /\ last.draw[2] \in 1..11
       /\ last.gain \in 2..21
       /\ ~(last.gain > BlackjackLimit)
       /\ last.gain \in PlayerTotals

\* two cards valued 11 were dealt: the plain sum 22 was reduced to 12
C23_Witness ==
  /\ last.cmd = "get_hand_value"
  /\ last.draw = <<11, 11>>
  /\ SumCards(last.draw) > BlackjackLimit
  /\ last.gain = 12

----------------------------------------------------------------------------
(* The house's hand in blackjack, one draw of the loop at a time.  The hand *)
(* is held in last.draw as <<sum of the cards, number of cards valued 11>>, *)
(* which is all get_hand_value reads; last.n counts the cards and last.gain *)
(* is dealer_total.                                                        *)

DealerInit ==
  /\ users = NoUsers
  /\ disk = users
  /\ now = StartHour
  /\ slot = [h \in Slots |-> Idle]
  /\ pre = users
  /\ last \in {[NoCmd EXCEPT !.cmd = "dealer", !.draw = h, !.n = 2,
                             !.gain = HandTotal(h)] : h \in InitialHands}
  /\ prev = NoCmd
  /\ cmds = 0

\* one iteration of `while dealer_total < 17`
DealerHit ==
  /\ last.cmd = "dealer"
  /\ last.gain < DealerStand
  /\ \E c \in Cards :
       LET h == Hit(last.draw, c)
       IN last' = [last EXCEPT !.draw = h, !.n = @ + 1, !.gain = HandTotal(h)]
  /\ UNCHANGED <<users, disk, now, slot, pre, prev, cmds>>

DealerNext == DealerHit

\* the loop goes on while its condition holds
DealerSpec == DealerInit /\ [][DealerNext]_vars /\ WF_vars(DealerHit)

\* the total of the hand with every card valued 11 counted as 1
LowTotal(h) == h[1] - 10 * h[2]

\* the loop has ended
DealerStands == last.cmd = "dealer" /\ last.gain >= DealerStand

\* C24: the house's loop ends for every sequence of drawn cards (each draw
\* raises the total that counts every 11 as 1 by at least 1, and the loop
\* goes on only while that total is below 17), and when it has ended the
\* house total is between 17 and 26.
C24_DealerLoop ==
  /\ <>DealerStands
  /\ [](DealerStands => (last.gain \in 17..26 /\ last.gain \in DealerTotals))
  /\ [](DealerTotals \subseteq 17..26)
  /\ [][ /\ LowTotal(last'.draw) >= LowTotal(last.draw) + 1
         /\ LowTotal(last.draw) < DealerStand ]_vars

\* the house drew a 10 on a total of 16 and ended on 26
C24_Witness ==
  /\ DealerStands
  /\ last.n > 2
  /\ last.gain = 26
  /\ last.draw[2] = 0

----------------------------------------------------------------------------
(* Winning outcomes. *)

\* C25: every winning outcome of a game (coinflip match, strictly higher
\* dice roll, roulette colour match, blackjack win, slot with at least two
\* equal symbols) leaves the caller's balance strictly greater than before
\* the bet and is recorded in total_winnings, never in total_losses, for
\* every stake of at least 1 and every multiplier.
C25_WinIsRecordedAsWin ==
  (GameResolved /\ last.out = "win" /\ last.n >= 1) =>
    LET old == PreAcct(last.who)
        new == users[last.who]
    IN /\ new.balance > old.balance
       /\ new.total_winnings > old.total_winnings
       /\ new.total_losses = old.total_losses

\* the same for every game but dice, and for dice with a stake above 1 or
\* an active boost
C25_WinIsRecordedAsWinButDiceOfOne ==
  (GameResolved /\ last.out = "win" /\ last.n >= 1
     /\ ~(last.cmd = "dice" /\ last.n = 1 /\ LastMult = 1)) =>
    LET old == PreAcct(last.who)
        new == users[last.who]
    IN /\ new.balance > old.balance
       /\ new.total_winnings > old.total_winnings
       /\ new.total_losses = old.total_losses

\* a dice win on a stake of 1 without boost: the payout is 1, the balance is
\* what it was before the bet and the game is recorded as a loss of 1
C25_Witness ==
  /\ GameResolved
  /\ last.cmd = "dice" /\ last.out = "win" /\ last.n = 1
  /\ last.draw[1] > last.draw[2]
  /\ last.gain = 1
  /\ users[last.who].balance = PreBal(last.who)
  /\ users[last.who].total_losses = PreAcct(last.who).total_losses + 1
  /\ users[last.who].total_winnings = PreAcct(last.who).total_winnings

====
